---- MODULE Spec2Model ----
(***************************************************************************)
(* Model of the bookshelf application: the Book entity model (createBook,  *)
(* validateBook), the localStorage backend, the Supabase backend with its  *)
(* field mapping, and the book-details modal that issues updates.          *)
(*                                                                         *)
(* JavaScript values are TLA+ records.  A primitive carries its type in    *)
(* the field t; an object is the record of its own properties (no object   *)
(* of the program has a property named t); an array wraps a sequence.      *)
(***************************************************************************)
EXTENDS Integers, Sequences, FiniteSets, TLC

VARIABLES
    slot,      \* localStorage entry under STORAGE_KEY
    now,       \* the value Date.now() returns
    last,      \* the last call: operation, argument, result, whether setItem could store
    modal,     \* BookModal: the selected book and the form state
    table,     \* Supabase: rows of public.books
    user,      \* Supabase: the authenticated principal, or Null
    input,     \* Book model: argument of the pure function under study
    out,       \* Book model: what the function returned
    books,     \* Bookshelf: the books state the shelves are rendered from
    addModal,  \* AddBookModal: isOpen, formData, errors
    showDeleteConfirm,  \* BookModal: whether the confirmation overlay is up
    channel,   \* change feed: the channel, its events, the callback's calls
    app,       \* App: session, loading, and the auth provider beside it
    backend    \* Bookshelf: which storage service '../services/storage' is

vars == <<slot, now, last, modal, table, user, input, out,
          books, addModal, showDeleteConfirm, channel, app, backend>>

localVars  == <<slot, last, modal>>
remoteVars == <<table, user>>
modelVars  == <<input, out>>
uiVars     == <<books, addModal, showDeleteConfirm, channel, app, backend>>

----------------------------------------------------------------------------
(* Bounds of the model *)

MaxNow   == 3      \* Date.now() is read at most MaxNow times, at instants 1..MaxNow
MaxBooks == 2      \* records in a collection
MaxRows  == 2      \* rows in the remote table
MaxEvents == 3     \* change events the backend emits

----------------------------------------------------------------------------
(* JavaScript values *)

Undefined == [t |-> "undefined"]
Null      == [t |-> "null"]
Num(n)    == [t |-> "number", n |-> n]
\* the number n + 1/2
Half(n)   == [t |-> "number", n |-> n, half |-> TRUE]
\* a string treated as an atom (identifiers, enumeration values, URLs)
Str(s)    == [t |-> "string", s |-> s]
\* a string given by its characters (user-typed title and author)
Text(cs)  == [t |-> "string", chars |-> cs]
Arr(xs)   == [t |-> "array", items |-> xs]
Bool(b)   == [t |-> "boolean", b |-> b]

IsPrim(v)      == "t" \in DOMAIN v
IsArray(v)     == IsPrim(v) /\ v.t = "array"
IsObject(v)    == ~IsPrim(v)
IsNumber(v)    == IsPrim(v) /\ v.t = "number"
IsString(v)    == IsPrim(v) /\ v.t = "string"
IsInteger(v)   == IsNumber(v) /\ "half" \notin DOMAIN v
IsNullish(v)   == v = Null \/ v = Undefined

\* obj.key: undefined when the object has no such property
Get(obj, k) == IF k \in DOMAIN obj THEN obj[k] ELSE Undefined

\* ToBoolean: undefined, null, "" and 0 are falsy
Truthy(v) ==
    IF ~IsPrim(v) THEN TRUE
    ELSE CASE v.t = "undefined" -> FALSE
           [] v.t = "null"      -> FALSE
           [] v.t = "number"    -> ~(IsInteger(v) /\ v.n = 0)
           [] v.t = "string"    -> IF "chars" \in DOMAIN v THEN v.chars # <<>> ELSE v.s # ""
           [] OTHER             -> TRUE

\* a || b
Or(a, b) == IF Truthy(a) THEN a ELSE b
\* a ?? b
Coalesce(a, b) == IF IsNullish(a) THEN b ELSE a

\* v < k and v > k for an integer literal k (a non-number compares as NaN: false)
Lt(v, k) == IsNumber(v) /\ v.n < k
Gt(v, k) == IsNumber(v) /\ (v.n > k \/ (v.n = k /\ ~IsInteger(v)))

\* { ...a, ...b }
Spread(a, b) == [k \in (DOMAIN a) \cup (DOMAIN b) |-> IF k \in DOMAIN b THEN b[k] ELSE a[k]]

\* String.prototype.trim on a sequence of characters
RECURSIVE TrimLeft(_)
TrimLeft(cs) == IF cs # <<>> /\ Head(cs) = " " THEN TrimLeft(Tail(cs)) ELSE cs
RECURSIVE TrimRight(_)
TrimRight(cs) ==
    IF cs # <<>> /\ cs[Len(cs)] = " " THEN TrimRight(SubSeq(cs, 1, Len(cs) - 1)) ELSE cs
Trim(cs) == TrimRight(TrimLeft(cs))

----------------------------------------------------------------------------
(* JSON *)

\* JSON.stringify's view of a value: a property whose value is undefined is
\* left out, an undefined array element becomes null
RECURSIVE ToJSON(_)
ToJSON(v) ==
    IF IsArray(v)
    THEN Arr([i \in 1..Len(v.items) |->
                 IF v.items[i] = Undefined THEN Null ELSE ToJSON(v.items[i])])
    ELSE IF IsPrim(v) THEN v
    ELSE [k \in {k \in DOMAIN v : v[k] # Undefined} |-> ToJSON(v[k])]

\* A text: the document it denotes and the indentation it is written with
JSONstringify(v, indent) == [kind |-> "json", doc |-> ToJSON(v), indent |-> indent]

\* JSON.parse: the document whatever the whitespace, a SyntaxError otherwise
JSONparse(text) ==
    IF text.kind = "json" THEN [threw |-> FALSE, value |-> text.doc]
    ELSE [threw |-> TRUE, value |-> Undefined]

----------------------------------------------------------------------------
(* Book entity model *)

WANT_TO_READ      == Str("want_to_read")
CURRENTLY_READING == Str("currently_reading")
READ              == Str("read")
READING_STATUS    == <<WANT_TO_READ, CURRENTLY_READING, READ>>

\* Object.values(READING_STATUS).includes(v)
IsReadingStatus(v) == \E i \in 1..Len(READING_STATUS) : READING_STATUS[i] = v

BookFields ==
    {"id", "title", "author", "coverUrl", "status", "rating", "review",
     "createdAt", "updatedAt", "finishedAt"}

\* a factory that defaults finishedAt with || as it does the text fields
createBook_OrFinishedAt(bookData, t, fresh) ==
    [id         |-> Or(Get(bookData, "id"), fresh),
     title      |-> Or(Get(bookData, "title"), Text(<<>>)),
     author     |-> Or(Get(bookData, "author"), Text(<<>>)),
     coverUrl   |-> Or(Get(bookData, "coverUrl"), Str("")),
     status     |-> Or(Get(bookData, "status"), WANT_TO_READ),
     rating     |-> Coalesce(Get(bookData, "rating"), Null),
     review     |-> Or(Get(bookData, "review"), Str("")),
     createdAt  |-> Or(Get(bookData, "createdAt"), Num(t)),
     updatedAt  |-> Or(Get(bookData, "updatedAt"), Num(t)),
     finishedAt |-> Or(Get(bookData, "finishedAt"), Null)]

\* createBook(bookData), with the instant Date.now() returned and the
\* identifier generateId() would return
createBook(bookData, t, fresh) ==
    [id         |-> Or(Get(bookData, "id"), fresh),
     title      |-> Or(Get(bookData, "title"), Text(<<>>)),
     author     |-> Or(Get(bookData, "author"), Text(<<>>)),
     coverUrl   |-> Or(Get(bookData, "coverUrl"), Str("")),
     status     |-> Or(Get(bookData, "status"), WANT_TO_READ),
     rating     |-> Coalesce(Get(bookData, "rating"), Null),
     review     |-> Or(Get(bookData, "review"), Str("")),
     createdAt  |-> Or(Get(bookData, "createdAt"), Num(t)),
     updatedAt  |-> Or(Get(bookData, "updatedAt"), Num(t)),
     finishedAt |-> Coalesce(Get(bookData, "finishedAt"), Null)]

TitleRequired  == "Title is required"
AuthorRequired == "Author is required"
RatingRange    == "Rating must be between 1 and 5"
InvalidStatus  == "Invalid reading status"

\* !v || v.trim() === '' for a string or missing v
IsBlank(v) == ~Truthy(v) \/ Trim(v.chars) = <<>>

titleCheck(bookData)  == IF IsBlank(Get(bookData, "title")) THEN <<TitleRequired>> ELSE <<>>
authorCheck(bookData) == IF IsBlank(Get(bookData, "author")) THEN <<AuthorRequired>> ELSE <<>>
ratingCheck(bookData) ==
    LET r == Get(bookData, "rating") IN
    IF r # Null /\ r # Undefined /\ (Lt(r, 1) \/ Gt(r, 5)) THEN <<RatingRange>> ELSE <<>>
statusCheck(bookData) ==
    LET s == Get(bookData, "status") IN
    IF Truthy(s) /\ ~IsReadingStatus(s) THEN <<InvalidStatus>> ELSE <<>>

\* a validator that stops at the first violated rule
validateBook_ShortCircuit(bookData) ==
    LET errors == titleCheck(bookData) \o authorCheck(bookData)
                  \o ratingCheck(bookData) \o statusCheck(bookData)
    IN [isValid |-> Len(errors) = 0, errors |-> SubSeq(errors, 1, IF Len(errors) = 0 THEN 0 ELSE 1)]

\* validateBook(bookData): the four checks push onto errors in turn
validateBook(bookData) ==
    LET errors == titleCheck(bookData) \o authorCheck(bookData)
                  \o ratingCheck(bookData) \o statusCheck(bookData)
    IN [isValid |-> Len(errors) = 0, errors |-> errors]

----------------------------------------------------------------------------
(* Local backend: the collection as one JSON text in localStorage *)

\* localStorage.getItem returns null for a missing entry
NoItem == [kind |-> "none"]

\* getAllBooks(): the stored array, or [] when the entry is missing, empty,
\* unparsable or not an array
getAllBooks(s) ==
    IF s = NoItem \/ s.kind = "empty" THEN <<>>
    ELSE LET parsed == JSONparse(s) IN
         IF parsed.threw THEN <<>>
         ELSE IF IsArray(parsed.value) THEN parsed.value.items ELSE <<>>

\* saveBooks(books): setItem either stores the text or throws (quota); the
\* catch turns the throw into false
saveBooks(s, bs, writable) ==
    IF writable THEN [slot |-> JSONstringify(Arr(bs), 0), ret |-> TRUE]
    ELSE [slot |-> s, ret |-> FALSE]

\* addBook(book)
addBook(s, book, writable) ==
    LET bs == Append(getAllBooks(s), book) IN
    [slot |-> saveBooks(s, bs, writable).slot, ret |-> book]

\* the TypeError raised by reading a property of null
TypeError == [t |-> "thrown", name |-> "TypeError"]

\* books.findIndex(b => b.id === bookId) reads b.id of each element up to
\* the first match: it throws when it meets a null element
findIndexThrows(bs, bookId) ==
    \E i \in 1..Len(bs) :
        /\ bs[i] = Null
        /\ \A j \in 1..(i - 1) : Get(bs[j], "id") # bookId

\* books.filter(b => ...b.id... or ...b.status...) reads the property of every
\* element: it throws when the array holds a null element
filterThrows(bs) == \E i \in 1..Len(bs) : bs[i] = Null

\* books.findIndex(b => b.id === bookId), 0 standing for -1
findIndexById(bs, bookId) ==
    IF \E i \in 1..Len(bs) : Get(bs[i], "id") = bookId
    THEN CHOOSE i \in 1..Len(bs) :
             /\ Get(bs[i], "id") = bookId
             /\ \A j \in 1..(i - 1) : Get(bs[j], "id") # bookId
    ELSE 0

\* updateBook(bookId, updates), with the instant Date.now() returned
updateBook(s, bookId, updates, t, writable) ==
    LET bs    == getAllBooks(s)
        index == findIndexById(bs, bookId)
    IN IF index = 0 THEN [slot |-> s, ret |-> Null]
       ELSE LET merged == Spread(Spread(bs[index], updates), [updatedAt |-> Num(t)])
                bs2    == [bs EXCEPT ![index] = merged]
            IN [slot |-> saveBooks(s, bs2, writable).slot, ret |-> merged]

\* a delete that saves and reports success whether or not a record matched
deleteBook_NoCheck(s, bookId, writable) ==
    LET bs       == getAllBooks(s)
        filtered == SelectSeq(bs, LAMBDA b : Get(b, "id") # bookId)
    IN [slot |-> saveBooks(s, filtered, writable).slot, ret |-> TRUE]

\* deleteBook(bookId)
deleteBook(s, bookId, writable) ==
    LET bs       == getAllBooks(s)
        filtered == SelectSeq(bs, LAMBDA b : Get(b, "id") # bookId)
    IN IF Len(filtered) = Len(bs) THEN [slot |-> s, ret |-> FALSE]
       ELSE [slot |-> saveBooks(s, filtered, writable).slot, ret |-> TRUE]

\* a query that ignores the status
getBooksByStatus_All(s, status) == getAllBooks(s)

\* getBooksByStatus(status)
getBooksByStatus(s, status) ==
    SelectSeq(getAllBooks(s), LAMBDA b : Get(b, "status") = status)

\* clearAllBooks(): removeItem
clearAllBooks(s) == [slot |-> NoItem, ret |-> TRUE]

\* exportBooks(): the collection as indented JSON text
exportBooks(s) == JSONstringify(Arr(getAllBooks(s)), 2)

\* an import that appends to the stored collection instead of replacing it
importBooks_Append(s, jsonString, writable) ==
    LET parsed == JSONparse(jsonString) IN
    IF parsed.threw THEN [slot |-> s, ret |-> FALSE]
    ELSE IF ~IsArray(parsed.value) THEN [slot |-> s, ret |-> FALSE]
    ELSE [slot |-> saveBooks(s, getAllBooks(s) \o parsed.value.items, writable).slot,
          ret |-> TRUE]

\* importBooks(jsonString)
importBooks(s, jsonString, writable) ==
    LET parsed == JSONparse(jsonString) IN
    IF parsed.threw THEN [slot |-> s, ret |-> FALSE]
    ELSE IF ~IsArray(parsed.value) THEN [slot |-> s, ret |-> FALSE]
    ELSE [slot |-> saveBooks(s, parsed.value.items, writable).slot, ret |-> TRUE]

----------------------------------------------------------------------------
(* Book-details modal (BookModal) over the local backend *)

\* the form state before any book was selected
ClosedModal ==
    [book |-> Null, rating |-> Null, review |-> Str(""), status |-> WANT_TO_READ]

\* the effect run when the book prop changes to a book
openModal(book) ==
    [book   |-> book,
     rating |-> Get(book, "rating"),
     review |-> Or(Get(book, "review"), Str("")),
     status |-> Get(book, "status")]

\* StarRating.handleClick(value): the same star again clears the rating
starClick(rating, value) == IF rating = Num(value) THEN Null ELSE Num(value)

\* whether handleSave reads the clock: the selected status is read and the
\* book shown is not yet read
entersRead(m) == m.status = READ /\ Get(m.book, "status") # READ

\* a save that never reads the clock
handleSave_Keep(m, t) ==
    [rating     |-> m.rating,
     review     |-> m.review,
     status     |-> m.status,
     finishedAt |-> Get(m.book, "finishedAt")]

\* the updates object handleSave passes to onUpdate
handleSave(m, t) ==
    [rating     |-> m.rating,
     review     |-> m.review,
     status     |-> m.status,
     finishedAt |-> IF entersRead(m) THEN Num(t) ELSE Get(m.book, "finishedAt")]

----------------------------------------------------------------------------
(* Inputs of the local specification *)

Ids == {Str("b1"), Str("b2")}

\* an identifier no record carries
AbsentId == Str("b9")

Title == Text(<<"x">>)

\* user-supplied data handed to createBook before addBook
AddInputs ==
    {[title |-> Title, author |-> Title],
     [title |-> Title, author |-> Title, status |-> CURRENTLY_READING, coverUrl |-> Str("u")],
     [title |-> Title, author |-> Title, status |-> READ, rating |-> Num(5)]}

\* updates objects handed to updateBook by a caller of the storage service
UpdateInputs ==
    {[status |-> READ],
     [status |-> WANT_TO_READ],
     [review |-> Str("r")]}

NoCall == [op |-> "none", ret |-> Null, arg |-> Null, wrote |-> FALSE]

\* the form AddBookModal starts with and resets to
EmptyForm ==
    [title |-> Text(<<>>), author |-> Text(<<>>), coverUrl |-> Str(""),
     status |-> WANT_TO_READ]

\* the components' useState initial values; no channel; App before its effect
InitUI ==
    /\ books = Arr(<<>>)
    /\ addModal = [isOpen |-> FALSE, formData |-> EmptyForm, errors |-> <<>>]
    /\ showDeleteConfirm = FALSE
    /\ channel = [state |-> "none", feed |-> <<>>, calls |-> <<>>, emitted |-> 0,
                  cancelled |-> FALSE, pending |-> 0, completed |-> 0]
    /\ app = [session |-> Null, loading |-> TRUE, lookup |-> "idle", read |-> Null,
              auth |-> Null, events |-> <<>>, changes |-> 0]
    /\ backend = "local"

InitLocal ==
    /\ slot = NoItem
    /\ now = 1
    /\ last = NoCall
    /\ modal = ClosedModal
    /\ table = <<>>
    /\ user = Null
    /\ input = Null
    /\ out = [fn |-> "none", res |-> Null]
    /\ InitUI

\* createBook(bookData) followed by addBook(book)
AddBook(bookData, fresh, writable) ==
    /\ now <= MaxNow
    /\ Len(getAllBooks(slot)) < MaxBooks
    /\ LET book == createBook(bookData, now, fresh)
           r    == addBook(slot, book, writable)
       IN /\ slot' = r.slot
          /\ last' = [op |-> "addBook", ret |-> r.ret, arg |-> Null, wrote |-> writable]
    /\ now' = now + 1
    /\ UNCHANGED <<modal, remoteVars, modelVars, uiVars>>

\* updateBook(bookId, updates): Date.now() is read when the record is found
UpdateBook(bookId, updates, writable) ==
    /\ now <= MaxNow
    /\ IF findIndexThrows(getAllBooks(slot), bookId)
       THEN /\ last' = [op |-> "updateBook", ret |-> TypeError,
                        arg |-> [id |-> bookId, updates |-> updates], wrote |-> FALSE]
            /\ UNCHANGED <<slot, now>>
       ELSE LET r == updateBook(slot, bookId, updates, now, writable)
            IN /\ slot' = r.slot
               /\ last' = [op |-> "updateBook", ret |-> r.ret,
                           arg |-> [id |-> bookId, updates |-> updates],
                           wrote |-> writable]
               /\ now' = IF r.ret = Null THEN now ELSE now + 1
    /\ UNCHANGED <<modal, remoteVars, modelVars, uiVars>>

DeleteBook(bookId, writable) ==
    /\ IF filterThrows(getAllBooks(slot))
       THEN /\ last' = [op |-> "deleteBook", ret |-> TypeError, arg |-> bookId,
                        wrote |-> FALSE]
            /\ slot' = slot
       ELSE LET r == deleteBook(slot, bookId, writable)
            IN /\ slot' = r.slot
               /\ last' = [op |-> "deleteBook", ret |-> Bool(r.ret), arg |-> bookId,
                           wrote |-> writable]
    /\ UNCHANGED <<now, modal, remoteVars, modelVars, uiVars>>

GetBooksByStatus(status) ==
    /\ last' = [op |-> "getBooksByStatus",
                ret |-> IF filterThrows(getAllBooks(slot)) THEN TypeError
                        ELSE Arr(getBooksByStatus(slot, status)),
                arg |-> status, wrote |-> FALSE]
    /\ UNCHANGED <<slot, now, modal, remoteVars, modelVars, uiVars>>

ClearAllBooks ==
    /\ LET r == clearAllBooks(slot)
       IN /\ slot' = r.slot
          /\ last' = [op |-> "clearAllBooks", ret |-> Bool(r.ret), arg |-> Null,
                      wrote |-> FALSE]
    /\ UNCHANGED <<now, modal, remoteVars, modelVars, uiVars>>

\* importBooks(exportBooks())
ExportImport(writable) ==
    /\ LET text == exportBooks(slot)
           r    == importBooks(slot, text, writable)
       IN /\ slot' = r.slot
          /\ last' = [op |-> "importBooks", ret |-> Bool(r.ret), arg |-> Null,
                      wrote |-> writable]
    /\ UNCHANGED <<now, modal, remoteVars, modelVars, uiVars>>

\* a click on the i-th card: setSelectedBook(book), then the form effect
HandleBookClick(i) ==
    /\ modal.book = Null
    /\ i \in 1..Len(getAllBooks(slot))
    /\ modal' = openModal(getAllBooks(slot)[i])
    /\ UNCHANGED <<slot, now, last, remoteVars, modelVars, uiVars>>

StarClick(value) ==
    /\ modal.book # Null
    /\ modal' = [modal EXCEPT !.rating = starClick(modal.rating, value)]
    /\ UNCHANGED <<slot, now, last, remoteVars, modelVars, uiVars>>

SetStatus(status) ==
    /\ modal.book # Null
    /\ modal' = [modal EXCEPT !.status = status]
    /\ UNCHANGED <<slot, now, last, remoteVars, modelVars, uiVars>>

\* handleSave: onUpdate(book.id, updates) runs the local updateBook and
\* setBooks(getAllBooks()), then onClose
HandleSave(writable) ==
    /\ modal.book # Null
    /\ LET t1 == now
           t2 == IF entersRead(modal) THEN now + 1 ELSE now
           id == Get(modal.book, "id")
           r  == updateBook(slot, id, handleSave(modal, t1), t2, writable)
       IN /\ t2 <= MaxNow
          /\ slot' = r.slot
          /\ last' = [op |-> "handleSave", ret |-> r.ret, arg |-> modal,
                      wrote |-> writable]
          /\ now' = IF r.ret = Null THEN t2 ELSE t2 + 1
          /\ books' = Arr(getAllBooks(r.slot))
    /\ modal' = ClosedModal
    /\ UNCHANGED <<remoteVars, modelVars, addModal, showDeleteConfirm, channel, app, backend>>

HandleCloseModal ==
    /\ modal.book # Null
    /\ modal' = ClosedModal
    /\ UNCHANGED <<slot, now, last, remoteVars, modelVars, uiVars>>

\* the storage service called directly
NextLocal ==
    \/ \E d \in AddInputs, f \in Ids, w \in BOOLEAN : AddBook(d, f, w)
    \/ \E id \in Ids \cup {AbsentId}, u \in UpdateInputs, w \in BOOLEAN : UpdateBook(id, u, w)
    \/ \E id \in Ids \cup {AbsentId}, w \in BOOLEAN : DeleteBook(id, w)
    \/ \E st \in {WANT_TO_READ, CURRENTLY_READING, READ} : GetBooksByStatus(st)
    \/ ClearAllBooks
    \/ \E w \in BOOLEAN : ExportImport(w)

Spec == InitLocal /\ [][NextLocal]_vars

\* the book-details modal, beside a caller of the storage service
NextModal ==
    \/ \E d \in AddInputs, f \in Ids, w \in BOOLEAN : AddBook(d, f, w)
    \/ \E id \in Ids, w \in BOOLEAN : UpdateBook(id, [status |-> READ], w)
    \/ \E i \in 1..MaxBooks : HandleBookClick(i)
    \/ StarClick(4)
    \/ \E st \in {WANT_TO_READ, CURRENTLY_READING, READ} : SetStatus(st)
    \/ \E w \in BOOLEAN : HandleSave(w)
    \/ HandleCloseModal

SpecModal == InitLocal /\ [][NextModal]_vars

----------------------------------------------------------------------------
(* Properties of the local backend *)

Statuses == {WANT_TO_READ, CURRENTLY_READING, READ}

stored == getAllBooks(slot)

HasId(bs, id) == \E i \in 1..Len(bs) : Get(bs[i], "id") = id

\* the record updateBook and deleteBook address by id
RecordOf(bs, id) == bs[findIndexById(bs, id)]

\* C1: deleteBook with an id no stored record has returns false and leaves
\* the collection getAllBooks returns as it was (records, order, fields)
C1_DeleteAbsent ==
    \A id \in Ids \cup {AbsentId}, w \in BOOLEAN :
        ~HasId(stored, id) =>
            LET r == deleteBook(slot, id, w) IN
            /\ r.ret = FALSE
            /\ getAllBooks(r.slot) = stored

C1_Witness ==
    /\ last.op = "deleteBook"
    /\ last.ret = Bool(FALSE)
    /\ Len(stored) = 2

\* C2: importBooks(exportBooks()) succeeds and getAllBooks then returns the
\* collection that was exported, field for field and in the same order
C2_ExportImport ==
    \A w \in BOOLEAN :
        LET r == importBooks(slot, exportBooks(slot), w) IN
        /\ r.ret = TRUE
        /\ getAllBooks(r.slot) = stored

C2_Witness ==
    /\ last.op = "importBooks"
    /\ last.ret = Bool(TRUE)
    /\ Len(stored) = 2
    /\ \E i \in 1..2 : stored[i].rating = Null /\ stored[i].finishedAt = Null
    /\ \E i \in 1..2 : stored[i].rating # Null

\* the positions of all whose record has the status, in increasing order
MatchingAt(all, status) == {i \in 1..Len(all) : Get(all[i], "status") = status}
Nth(idx, k) == CHOOSE i \in idx : Cardinality({j \in idx : j <= i}) = k

\* C6: getBooksByStatus(s) is exactly the records of getAllBooks() whose
\* status is s, in the order they have in getAllBooks()
C6_ByStatus ==
    \A st \in Statuses \cup {Str("")} :
        LET r   == getBooksByStatus(slot, st)
            idx == MatchingAt(stored, st)
        IN /\ Len(r) = Cardinality(idx)
           /\ \A k \in 1..Len(r) : r[k] = stored[Nth(idx, k)]

C6_Witness ==
    /\ last.op = "getBooksByStatus"
    /\ Len(stored) = 2
    /\ last.ret.items = <<stored[2]>>

----------------------------------------------------------------------------
(* Properties of the status transition into read *)

----------------------------------------------------------------------------
(* Remote backend: field mapping *)

\* toSnakeCase(obj)
toSnakeCase(obj) ==
    LET result ==
            [title       |-> Get(obj, "title"),
             author      |-> Get(obj, "author"),
             cover_url   |-> Or(Or(Get(obj, "coverUrl"), Get(obj, "cover_url")), Str("")),
             status      |-> Get(obj, "status"),
             rating      |-> Get(obj, "rating"),
             review      |-> Or(Get(obj, "review"), Str("")),
             finished_at |-> Or(Or(Get(obj, "finishedAt"), Get(obj, "finished_at")), Null)]
    IN IF Truthy(Get(obj, "id")) THEN Spread(result, [id |-> obj.id]) ELSE result

\* toCamelCase(obj)
toCamelCase(obj) ==
    [id         |-> Get(obj, "id"),
     title      |-> Get(obj, "title"),
     author     |-> Get(obj, "author"),
     coverUrl   |-> Or(Get(obj, "cover_url"), Str("")),
     status     |-> Get(obj, "status"),
     rating     |-> Get(obj, "rating"),
     review     |-> Or(Get(obj, "review"), Str("")),
     createdAt  |-> Get(obj, "created_at"),
     updatedAt  |-> Get(obj, "updated_at"),
     finishedAt |-> Get(obj, "finished_at")]

----------------------------------------------------------------------------
(* The Book model and the field mapping applied to bounded inputs *)

\* marks a field the input object does not have
Absent == [t |-> "absent"]
Strip(o) == [k \in {k \in DOMAIN o : o[k] # Absent} |-> o[k]]

ValidateInputs ==
    {Strip([title |-> ti, author |-> au, rating |-> ra, status |-> st]) :
        ti \in {Absent, Text(<<>>), Text(<<" ">>), Text(<<"x">>), Text(<<" ", "x", " ">>)},
        au \in {Absent, Text(<<" ", " ">>), Text(<<"y">>)},
        ra \in {Absent, Null, Num(0), Num(1), Num(3), Num(5), Num(6), Half(2)},
        st \in {Absent, Str(""), WANT_TO_READ, READ, Str("finished")}}

CreateInputs ==
    {Strip([title |-> Text(<<"x">>), author |-> Text(<<"y">>), id |-> id, status |-> st,
            rating |-> ra, coverUrl |-> cu, review |-> rv, createdAt |-> ca,
            updatedAt |-> ca, finishedAt |-> fa]) :
        id \in {Absent, Str(""), Str("b1")},
        st \in {Absent, Str(""), CURRENTLY_READING, READ},
        ra \in {Absent, Null, Num(3)},
        cu \in {Absent, Str("u")},
        rv \in {Absent, Str("r")},
        ca \in {Absent, Num(0), Num(7)},
        fa \in {Absent, Null, Num(0), Num(7)}}

\* complete Book records, as createBook builds them
BookRecords ==
    {createBook(d, 1, Str("b2")) :
        d \in {c \in CreateInputs :
                  /\ Get(c, "createdAt") # Num(0)
                  /\ Get(c, "finishedAt") # Num(0)}}

\* the argument is drawn first; each function is then applied to it once
InitModel ==
    /\ slot = NoItem
    /\ now = 1
    /\ last = NoCall
    /\ modal = ClosedModal
    /\ table = <<>>
    /\ user = Null
    /\ input \in ValidateInputs \cup CreateInputs \cup BookRecords
    /\ out = [fn |-> "none", res |-> Null]
    /\ InitUI

ValidateBook ==
    /\ out.fn = "none"
    /\ input \in ValidateInputs
    /\ out' = [fn |-> "validateBook", res |-> validateBook(input)]
    /\ UNCHANGED <<input, now, localVars, remoteVars, uiVars>>

CreateBook(fresh) ==
    /\ out.fn = "none"
    /\ input \in CreateInputs
    /\ out' = [fn |-> "createBook", res |-> createBook(input, now, fresh), fresh |-> fresh]
    /\ UNCHANGED <<input, now, localVars, remoteVars, uiVars>>

\* toCamelCase(toSnakeCase(book))
RoundTrip ==
    /\ out.fn = "none"
    /\ input \in BookRecords
    /\ out' = [fn |-> "roundTrip", res |-> toCamelCase(toSnakeCase(input))]
    /\ UNCHANGED <<input, now, localVars, remoteVars, uiVars>>

NextModel ==
    \/ ValidateBook
    \/ \E f \in Ids : CreateBook(f)
    \/ RoundTrip

SpecModel == InitModel /\ [][NextModel]_vars

Range(seq) == {seq[i] : i \in 1..Len(seq)}

\* C3 as stated: translating a Book to the remote representation and back
\* yields a record equal to the original in every one of the ten fields
C3_RoundTrip ==
    out.fn = "roundTrip" => out.res = input

\* what createBook fills in for an omitted field
DefaultOf(k, fresh, t) ==
    CASE k = "id" -> fresh
      [] k \in {"title", "author"} -> Text(<<>>)
      [] k \in {"coverUrl", "review"} -> Str("")
      [] k = "status" -> WANT_TO_READ
      [] k \in {"rating", "finishedAt"} -> Null
      [] k \in {"createdAt", "updatedAt"} -> Num(t)

\* the invariants of a record: an id, an enumerated status, both timestamps
WellFormed(b) ==
    /\ DOMAIN b = BookFields
    /\ ~IsNullish(b.id)
    /\ b.status \in Statuses
    /\ IsNumber(b.createdAt)
    /\ IsNumber(b.updatedAt)

\* an input that passes validateBook and whose status, when supplied, is one
\* of the three values
ValidInput(d) ==
    /\ validateBook(d).isValid
    /\ "status" \in DOMAIN d => d.status \in Statuses

\* C7 as stated: for a valid input createBook returns a well-formed record in
\* which every supplied field is kept and every omitted one has its default
C7_SuppliedKept ==
    (out.fn = "createBook" /\ ValidInput(input)) =>
        /\ WellFormed(out.res)
        /\ \A k \in BookFields :
              out.res[k] = IF k \in DOMAIN input THEN input[k]
                           ELSE DefaultOf(k, out.fresh, now)

\* whether createBook takes the supplied value: rating and finishedAt unless
\* null, every other field unless falsy ('' or 0)
Taken(d, k) ==
    /\ k \in DOMAIN d
    /\ IF k \in {"rating", "finishedAt"} THEN ~IsNullish(d[k]) ELSE Truthy(d[k])

\* C7 as amended: for a valid input createBook returns a well-formed record
\* in which a field supplied with a non-falsy value (rating, finishedAt: a
\* non-null value) is kept and every other field has its default
C7_TruthyKept ==
    (out.fn = "createBook" /\ ValidInput(input)) =>
        /\ WellFormed(out.res)
        /\ \A k \in BookFields :
              out.res[k] = IF Taken(input, k) THEN input[k]
                           ELSE DefaultOf(k, out.fresh, now)

C7_Witness ==
    /\ out.fn = "createBook"
    /\ ValidInput(input)
    /\ DOMAIN input = {"title", "author", "rating", "finishedAt", "createdAt", "updatedAt"}
    /\ input.rating = Num(3)
    /\ input.finishedAt = Num(0)
    /\ input.createdAt = Num(0)
    /\ out.res.finishedAt = Num(0)
    /\ out.res.createdAt = Num(now)

\* a missing or whitespace-only text
BlankText(d, k) == k \notin DOMAIN d \/ \A i \in 1..Len(d[k].chars) : d[k].chars[i] = " "

Messages == <<TitleRequired, AuthorRequired, RatingRange, InvalidStatus>>

\* C8: the error list holds the messages of the violated rules once each in
\* the order title, author, rating, status; isValid is true exactly when it
\* is empty; a missing or blank title or author is always reported; whether
\* the rating or status message appears depends on that field alone, and
\* neither appears when the field is absent
C8_Accumulates ==
    out.fn = "validateBook" =>
        LET e == out.res.errors IN
        /\ out.res.isValid <=> (e = <<>>)
        /\ e = SelectSeq(Messages, LAMBDA m : m \in Range(e))
        /\ TitleRequired \in Range(e) <=> BlankText(input, "title")
        /\ AuthorRequired \in Range(e) <=> BlankText(input, "author")
        /\ \A d \in ValidateInputs :
              /\ Get(d, "rating") = Get(input, "rating") =>
                    (RatingRange \in Range(validateBook(d).errors)
                        <=> RatingRange \in Range(e))
              /\ Get(d, "status") = Get(input, "status") =>
                    (InvalidStatus \in Range(validateBook(d).errors)
                        <=> InvalidStatus \in Range(e))
        /\ "rating" \notin DOMAIN input => RatingRange \notin Range(e)
        /\ "status" \notin DOMAIN input => InvalidStatus \notin Range(e)

C8_Witness ==
    /\ out.fn = "validateBook"
    /\ out.res.errors = Messages
    /\ ~out.res.isValid

\* C9 as stated: a rating error is reported exactly for a rating that is
\* present, non-null and not an integer from 1 to 5
C9_RatingInteger ==
    out.fn = "validateBook" =>
        LET r == Get(input, "rating") IN
        RatingRange \in Range(out.res.errors)
            <=> (~IsNullish(r) /\ ~(IsInteger(r) /\ r.n >= 1 /\ r.n <= 5))

\* C10 as stated: when status is present, 'Invalid reading status' is
\* reported exactly when it is not one of the three values
C10_StatusPresent ==
    (out.fn = "validateBook" /\ "status" \in DOMAIN input) =>
        (InvalidStatus \in Range(out.res.errors) <=> input.status \notin Statuses)

----------------------------------------------------------------------------
(* Remote backend: the books table behind row-level security *)

Principals == {Str("u1"), Str("u2")}

Columns ==
    {"id", "user_id", "title", "author", "cover_url", "status", "rating", "review",
     "created_at", "updated_at", "finished_at"}

\* a column value the request body does not carry is NULL
Column(body, k) == IF k \in DOMAIN body THEN body[k] ELSE Null

\* the table's NOT NULL and CHECK constraints
RowAllowed(row) ==
    /\ row.user_id # Null
    /\ row.title # Null
    /\ row.author # Null
    /\ row.status \in {WANT_TO_READ, CURRENTLY_READING, READ}
    /\ row.rating = Null \/ (IsInteger(row.rating) /\ row.rating.n >= 1 /\ row.rating.n <= 5)

\* INSERT of one row by principal uid at server time t: column defaults, the
\* INSERT policy (auth.uid() = user_id), the constraints, the primary key
insertRow(tbl, body, uid, t, genId) ==
    LET row == [k \in Columns |->
                   IF k \in DOMAIN body THEN body[k]
                   ELSE CASE k = "id" -> genId
                          [] k \in {"created_at", "updated_at"} -> Num(t)
                          [] OTHER -> Null]
        ok  == /\ uid # Null
               /\ row.user_id = uid
               /\ RowAllowed(row)
               /\ \A i \in 1..Len(tbl) : tbl[i].id # row.id
    IN IF ok THEN [table |-> Append(tbl, row), rows |-> <<row>>, error |-> FALSE]
       ELSE [table |-> tbl, rows |-> <<>>, error |-> TRUE]

\* an UPDATE that no policy guards
updateRows_NoPolicy(tbl, body, bookId, uid, t) ==
    LET hit(i)  == tbl[i].id = bookId
        new(i)  == Spread(Spread(tbl[i], body), [updated_at |-> Num(t)])
        tbl2    == [i \in 1..Len(tbl) |-> IF hit(i) THEN new(i) ELSE tbl[i]]
        idx     == SelectSeq([i \in 1..Len(tbl) |-> i], LAMBDA i : hit(i))
        changed == [k \in 1..Len(idx) |-> tbl2[idx[k]]]
        ok      == /\ \A i \in 1..Len(tbl) : hit(i) => RowAllowed(new(i))
                   /\ \A i, j \in 1..Len(tbl) : i # j => tbl2[i].id # tbl2[j].id
    IN IF ok THEN [table |-> tbl2, rows |-> changed, error |-> FALSE]
       ELSE [table |-> tbl, rows |-> <<>>, error |-> TRUE]

\* UPDATE ... WHERE id = bookId by principal uid at server time t: the UPDATE
\* policy (auth.uid() = user_id) selects the rows and, having no WITH CHECK
\* of its own, is also applied to the new row; the body's columns are
\* assigned, the trigger refreshes updated_at, the constraints are checked
updateRows(tbl, body, bookId, uid, t) ==
    LET hit(i)  == tbl[i].id = bookId /\ uid # Null /\ tbl[i].user_id = uid
        new(i)  == Spread(Spread(tbl[i], body), [updated_at |-> Num(t)])
        tbl2    == [i \in 1..Len(tbl) |-> IF hit(i) THEN new(i) ELSE tbl[i]]
        idx     == SelectSeq([i \in 1..Len(tbl) |-> i], LAMBDA i : hit(i))
        changed == [k \in 1..Len(idx) |-> tbl2[idx[k]]]
        ok      == /\ \A i \in 1..Len(tbl) :
                          hit(i) => (RowAllowed(new(i)) /\ new(i).user_id = uid)
                   /\ \A i, j \in 1..Len(tbl) : i # j => tbl2[i].id # tbl2[j].id
    IN IF ok THEN [table |-> tbl2, rows |-> changed, error |-> FALSE]
       ELSE [table |-> tbl, rows |-> <<>>, error |-> TRUE]

\* an addBook that lets the book object name the owner
remoteAddBook_OwnerFromBook(tbl, usr, book, t, genId) ==
    IF usr = Null THEN [table |-> tbl, threw |-> TRUE, ret |-> Undefined]
    ELSE LET owner    == IF "user_id" \in DOMAIN book THEN book.user_id ELSE usr
             bookData == Spread(toSnakeCase(book), [user_id |-> owner])
             res      == insertRow(tbl, ToJSON(bookData), usr, t, genId)
         IN IF res.error THEN [table |-> tbl, threw |-> TRUE, ret |-> Undefined]
            ELSE [table |-> res.table, threw |-> FALSE, ret |-> toCamelCase(res.rows[1])]

\* addBook(book) of the remote service; the request body is JSON
remoteAddBook(tbl, usr, book, t, genId) ==
    IF usr = Null THEN [table |-> tbl, threw |-> TRUE, ret |-> Undefined]
    ELSE LET bookData == Spread(toSnakeCase(book), [user_id |-> usr])
             res      == insertRow(tbl, ToJSON(bookData), usr, t, genId)
         IN IF res.error THEN [table |-> tbl, threw |-> TRUE, ret |-> Undefined]
            ELSE [table |-> res.table, threw |-> FALSE, ret |-> toCamelCase(res.rows[1])]

\* updateBook(bookId, updates) of the remote service; .single() is an error
\* unless exactly one row comes back
remoteUpdateBook(tbl, usr, bookId, updates, t) ==
    LET updateData == toSnakeCase(updates)
        res        == updateRows(tbl, ToJSON(updateData), bookId, usr, t)
    IN IF res.error THEN [table |-> tbl, threw |-> TRUE, ret |-> Undefined]
       ELSE IF Len(res.rows) # 1 THEN [table |-> res.table, threw |-> TRUE, ret |-> Undefined]
       ELSE [table |-> res.table, threw |-> FALSE, ret |-> toCamelCase(res.rows[1])]

\* DELETE ... WHERE id = bookId by principal uid: the DELETE policy selects
\* the rows; deleting no row is not an error
deleteRows(tbl, bookId, uid) ==
    SelectSeq(tbl, LAMBDA r : ~(r.id = bookId /\ uid # Null /\ r.user_id = uid))

\* SELECT by principal uid: the rows the SELECT policy lets through
selectRows(tbl, uid) ==
    SelectSeq(tbl, LAMBDA r : uid # Null /\ r.user_id = uid)

\* ORDER BY created_at DESC: the k-th row is the one with k - 1 rows before
\* it, a row coming before another when it is newer, or as new and earlier
\* in the table
orderNewestFirst(rows) ==
    LET before(i, j) == \/ rows[i].created_at.n > rows[j].created_at.n
                        \/ (rows[i].created_at.n = rows[j].created_at.n /\ i < j)
        rank(i)      == 1 + Cardinality({j \in 1..Len(rows) : before(j, i)})
    IN [k \in 1..Len(rows) |-> rows[CHOOSE i \in 1..Len(rows) : rank(i) = k]]

\* data.map(toCamelCase)
mapToCamelCase(rows) == [k \in 1..Len(rows) |-> toCamelCase(rows[k])]

\* deleteBook(bookId) of the remote service; ok tells whether the request
\* reached the backend and came back without an error
remoteDeleteBook(tbl, usr, bookId, ok) ==
    IF ~ok THEN [table |-> tbl, ret |-> FALSE]
    ELSE [table |-> deleteRows(tbl, bookId, usr), ret |-> TRUE]

\* a query that returns every row of the table
remoteGetAllBooks_All(tbl, usr, ok) == mapToCamelCase(orderNewestFirst(tbl))

\* getAllBooks() of the remote service
remoteGetAllBooks(tbl, usr, ok) ==
    IF usr = Null THEN <<>>
    ELSE IF ~ok THEN <<>>
    ELSE LET data == SelectSeq(selectRows(tbl, usr), LAMBDA r : r.user_id = usr)
         IN mapToCamelCase(orderNewestFirst(data))

\* getBooksByStatus(status) of the remote service
remoteGetBooksByStatus(tbl, usr, status, ok) ==
    IF usr = Null THEN <<>>
    ELSE IF ~ok THEN <<>>
    ELSE LET data == SelectSeq(selectRows(tbl, usr),
                               LAMBDA r : r.user_id = usr /\ r.status = status)
         IN mapToCamelCase(orderNewestFirst(data))

\* updates objects handed to the remote updateBook: one field only, or the
\* four fields the modal sends when a book is finished at instant t
SaveUpdates(t) ==
    [rating |-> Null, review |-> Str(""), status |-> READ, finishedAt |-> Num(t)]
FrameUpdates ==
    {[review |-> Str("r")], [rating |-> Num(4)], [status |-> WANT_TO_READ]}

InitRemote ==
    /\ slot = NoItem
    /\ now = 1
    /\ last = NoCall
    /\ modal = ClosedModal
    /\ table = <<>>
    /\ user = Null
    /\ input = Null
    /\ out = [fn |-> "none", res |-> Null]
    /\ InitUI

\* the auth provider's session changes
SignIn(u) ==
    /\ user # u
    /\ user' = u
    /\ UNCHANGED <<table, now, localVars, modelVars, uiVars>>

SignOut ==
    /\ user # Null
    /\ user' = Null
    /\ UNCHANGED <<table, now, localVars, modelVars, uiVars>>

\* createBook(bookData) followed by the remote addBook(book)
RemoteAddBook(bookData, fresh) ==
    /\ now <= MaxNow
    /\ Len(table) < MaxRows
    /\ LET book == createBook(bookData, now, fresh)
           r    == remoteAddBook(table, user, book, now, Str("g1"))
       IN /\ table' = r.table
          /\ last' = [op |-> "remoteAddBook", ret |-> r.ret, arg |-> book, wrote |-> ~r.threw]
    /\ now' = now + 1
    /\ UNCHANGED <<user, slot, modal, modelVars, uiVars>>

RemoteUpdateBook(bookId, updates) ==
    /\ now <= MaxNow
    /\ LET r == remoteUpdateBook(table, user, bookId, updates, now)
       IN /\ table' = r.table
          /\ last' = [op |-> "remoteUpdateBook", ret |-> r.ret,
                      arg |-> [id |-> bookId, updates |-> updates], wrote |-> ~r.threw]
    /\ now' = now + 1
    /\ UNCHANGED <<user, slot, modal, modelVars, uiVars>>

\* a book object and an updates object that carry an owner of their own
ForeignOwner == [user_id |-> Str("u2")]
ForeignUpdates == {[review |-> Str("r"), user_id |-> Str("u2")]}

\* the remote addBook(book) called with a book object that carries user_id
RemoteAddObject(fresh) ==
    /\ now <= MaxNow
    /\ Len(table) < MaxRows
    /\ LET book == Spread(createBook([title |-> Title, author |-> Title], now, fresh),
                          ForeignOwner)
           r    == remoteAddBook(table, user, book, now, Str("g1"))
       IN /\ table' = r.table
          /\ last' = [op |-> "remoteAddBook", ret |-> r.ret, arg |-> book, wrote |-> ~r.threw]
    /\ now' = now + 1
    /\ UNCHANGED <<user, slot, modal, modelVars, uiVars>>

RemoteDeleteBook(bookId, ok) ==
    /\ LET r == remoteDeleteBook(table, user, bookId, ok)
       IN /\ table' = r.table
          /\ last' = [op |-> "remoteDeleteBook", ret |-> Bool(r.ret), arg |-> bookId,
                      wrote |-> r.ret]
    /\ UNCHANGED <<user, now, slot, modal, modelVars, uiVars>>

RemoteGetAllBooks(ok) ==
    /\ last' = [op |-> "remoteGetAllBooks", ret |-> Arr(remoteGetAllBooks(table, user, ok)),
                arg |-> Null, wrote |-> FALSE]
    /\ UNCHANGED <<table, user, now, slot, modal, modelVars, uiVars>>

RemoteGetBooksByStatus(status, ok) ==
    /\ last' = [op |-> "remoteGetBooksByStatus",
                ret |-> Arr(remoteGetBooksByStatus(table, user, status, ok)),
                arg |-> status, wrote |-> FALSE]
    /\ UNCHANGED <<table, user, now, slot, modal, modelVars, uiVars>>

NextRemote ==
    \/ \E u \in Principals : SignIn(u)
    \/ SignOut
    \/ \E d \in AddInputs, f \in Ids : RemoteAddBook(d, f)
    \/ \E f \in Ids : RemoteAddObject(f)
    \/ \E id \in Ids, u \in FrameUpdates \cup {SaveUpdates(now)} \cup ForeignUpdates :
           RemoteUpdateBook(id, u)
    \/ \E id \in Ids, ok \in BOOLEAN : RemoteDeleteBook(id, ok)

SpecRemote == InitRemote /\ [][NextRemote]_vars

\* the queries of the remote service, beside sign-in, sign-out and addBook
NextQuery ==
    \/ \E u \in Principals : SignIn(u)
    \/ SignOut
    \/ \E d \in AddInputs, f \in Ids : RemoteAddBook(d, f)
    \/ \E ok \in BOOLEAN : RemoteGetAllBooks(ok)
    \/ \E st \in {WANT_TO_READ, READ}, ok \in BOOLEAN : RemoteGetBooksByStatus(st, ok)

SpecQuery == InitRemote /\ [][NextQuery]_vars


\* C5 as stated: in both backends an update of a book that is read, which
\* names a field other than finishedAt or moves the book out of read, leaves
\* the stored finishedAt as it was
C5_FinishedAtKept ==
    [][/\ (/\ last' # last
           /\ last'.op = "updateBook"
           /\ "finishedAt" \notin DOMAIN last'.arg.updates
           /\ HasId(stored, last'.arg.id)
           /\ RecordOf(stored, last'.arg.id).status = READ)
          => RecordOf(getAllBooks(slot'), last'.arg.id).finishedAt
                 = RecordOf(stored, last'.arg.id).finishedAt
       /\ \A i \in 1..Len(table) :
              (/\ last' # last
               /\ last'.op = "remoteUpdateBook"
               /\ "finishedAt" \notin DOMAIN last'.arg.updates
               /\ table[i].status = READ)
              => table'[i].finished_at = table[i].finished_at]_vars

----------------------------------------------------------------------------
(* Local backend: importBooks applied to arbitrary texts *)

\* two record objects as a backup file holds them
RecA == ToJSON(createBook([title |-> Title, author |-> Title, id |-> Str("b1")], 1, Str("b1")))
RecB == ToJSON(createBook([title |-> Title, author |-> Title, id |-> Str("b2"),
                           status |-> READ, rating |-> Num(5)], 1, Str("b2")))

\* a text that is not JSON
NotJSON == [kind |-> "text"]

\* texts handed to importBooks: not JSON, JSON values that are not arrays,
\* arrays of records, and arrays with elements that are not records
ImportTexts ==
    {NotJSON}
    \cup {JSONstringify(v, 0) :
            v \in {Null, Num(1), RecA,
                   Arr(<<>>), Arr(<<RecA>>), Arr(<<RecB, RecA>>),
                   Arr(<<Null>>), Arr(<<Num(1)>>), Arr(<<RecA, Null>>),
                   Arr(<<Arr(<<>>)>>)}}

ImportBooks(text, writable) ==
    /\ LET r == importBooks(slot, text, writable)
       IN /\ slot' = r.slot
          /\ last' = [op |-> "importBooks", ret |-> Bool(r.ret), arg |-> text,
                      wrote |-> writable]
    /\ UNCHANGED <<now, modal, remoteVars, modelVars, uiVars>>

\* importBooks on any text, beside addBook and clearAllBooks
NextImport ==
    \/ \E t \in ImportTexts, w \in BOOLEAN : ImportBooks(t, w)
    \/ \E d \in AddInputs, f \in Ids, w \in BOOLEAN : AddBook(d, f, w)
    \/ ClearAllBooks

SpecImport == InitLocal /\ [][NextImport]_vars

\* whether the text parses to a sequence of record objects
IsRecordSeq(text) ==
    LET parsed == JSONparse(text) IN
    /\ ~parsed.threw
    /\ IsArray(parsed.value)
    /\ \A i \in 1..Len(parsed.value.items) : IsObject(parsed.value.items[i])

\* C11 as stated, for a storage that accepts the write: importBooks(text)
\* returns true and replaces the collection by the parsed contents when text
\* parses to a sequence of record objects; for any other text it returns
\* false and the collection is unchanged
C11_ImportRecordsOnly ==
    [][(last' # last /\ last'.op = "importBooks" /\ last'.wrote)
       => IF IsRecordSeq(last'.arg)
          THEN /\ last'.ret = Bool(TRUE)
               /\ getAllBooks(slot') = JSONparse(last'.arg).value.items
          ELSE /\ last'.ret = Bool(FALSE)
               /\ getAllBooks(slot') = stored]_vars

----------------------------------------------------------------------------
(* Local backend: the storage functions called with any arguments *)

\* bookData that names the id of the record to create
StoreInputs == AddInputs \cup {[title |-> Title, author |-> Title, id |-> Str("b1")]}

\* updates objects a caller may pass: any field of the record can be named
RawUpdates ==
    UpdateInputs
    \cup {[id |-> Str("b2")], [createdAt |-> Num(0)], [status |-> Str("finished")]}

\* generateId() returns an identifier no stored record carries
AddFresh(bookData, fresh, writable) ==
    /\ ~HasId(stored, fresh)
    /\ AddBook(bookData, fresh, writable)

NextStore ==
    \/ \E d \in StoreInputs, f \in Ids, w \in BOOLEAN : AddFresh(d, f, w)
    \/ \E id \in Ids \cup {AbsentId}, u \in RawUpdates, w \in BOOLEAN : UpdateBook(id, u, w)
    \/ \E id \in Ids \cup {AbsentId}, w \in BOOLEAN : DeleteBook(id, w)

SpecStore == InitLocal /\ [][NextStore]_vars

\* a step that is a call updateBook(id, updates)
UpdateStep == last' # last /\ last'.op = "updateBook"

\* C12 as stated: updateBook with an id no record has returns null and
\* leaves the collection unchanged; with an id that is present it returns the
\* record as stored after the update, and the other records and the order
\* are unchanged
C12_UpdateResult ==
    [][UpdateStep =>
         LET id    == last'.arg.id
             index == findIndexById(stored, id)
             after == getAllBooks(slot')
         IN IF index = 0
            THEN last'.ret = Null /\ after = stored
            ELSE /\ Len(after) = Len(stored)
                 /\ after[index] = ToJSON(last'.ret)
                 /\ \A i \in 1..Len(stored) : i # index => after[i] = stored[i]]_vars

\* C13 as stated: no updateBook call changes the createdAt of a record
C13_CreatedAtKept ==
    [][UpdateStep =>
         LET after == getAllBooks(slot') IN
         /\ Len(after) = Len(stored)
         /\ \A i \in 1..Len(stored) : after[i].createdAt = stored[i].createdAt]_vars

\* C14 as stated: updateBook(id, updates) on a stored id returns and stores a
\* record whose id is still id
C14_IdKept ==
    [][(UpdateStep /\ HasId(stored, last'.arg.id) /\ last'.wrote) =>
         LET index == findIndexById(stored, last'.arg.id) IN
         /\ last'.ret.id = last'.arg.id
         /\ getAllBooks(slot')[index].id = last'.arg.id]_vars

\* C15 as stated: no two records of the stored collection have the same id
C15_UniqueIds ==
    \A i, j \in 1..Len(stored) : i # j => stored[i].id # stored[j].id

\* C16 as stated: every record getAllBooks returns has one of the three
\* statuses
C16_StatusEnumerated ==
    \A i \in 1..Len(stored) : Get(stored[i], "status") \in Statuses

----------------------------------------------------------------------------
(* Properties of the remote backend: authentication and ownership *)

RemoteWrites == {"remoteAddBook", "remoteUpdateBook", "remoteDeleteBook"}

\* C17 as stated: a remote add, update or delete made while no principal is
\* authenticated does not end in a success result and leaves every row as
\* it was
C17_SignedOutRejected ==
    [][(last' # last /\ last'.op \in RemoteWrites /\ user = Null)
       => (~last'.wrote /\ table' = table)]_vars

\* the signed-out caller and the principals
Callers == Principals \cup {Null}

OwnedBy(tbl, u) == SelectSeq(tbl, LAMBDA r : r.user_id = u)
RowIds(rows) == {rows[k].id : k \in 1..Len(rows)}

\* the records are rows of tbl owned by u that satisfy the status filter,
\* each row once, translated by toCamelCase, newest first
OwnRowsNewestFirst(res, tbl, u, st) ==
    /\ \A k \in 1..Len(res) :
          \E i \in 1..Len(tbl) :
              /\ tbl[i].user_id = u
              /\ st # Null => tbl[i].status = st
              /\ res[k] = toCamelCase(tbl[i])
    /\ Len(res) = Cardinality({i \in 1..Len(tbl) :
                                  tbl[i].user_id = u /\ (st # Null => tbl[i].status = st)})
    /\ \A k, l \in 1..Len(res) : k # l => res[k].id # res[l].id
    /\ \A k \in 1..(Len(res) - 1) : res[k].createdAt.n >= res[k + 1].createdAt.n

\* C18: for every caller, getAllBooks and getBooksByStatus of the remote
\* service return only rows the caller owns, newest first by createdAt, and
\* the empty list when nobody is authenticated or the query fails
C18_OwnRowsOnly ==
    \A u \in Callers, ok \in BOOLEAN :
        /\ LET res == remoteGetAllBooks(table, u, ok) IN
           IF u = Null \/ ~ok THEN res = <<>>
           ELSE OwnRowsNewestFirst(res, table, u, Null)
        /\ \A st \in Statuses :
              LET res == remoteGetBooksByStatus(table, u, st, ok) IN
              IF u = Null \/ ~ok THEN res = <<>>
              ELSE OwnRowsNewestFirst(res, table, u, st)

C18_Witness ==
    /\ last.op = "remoteGetAllBooks"
    /\ user # Null
    /\ Len(table) = 2
    /\ table[1].user_id # table[2].user_id
    /\ Len(last.ret.items) = 1
    /\ \E i \in 1..2 : table[i].user_id = user /\ last.ret.items[1].id = table[i].id

\* C19: a step that is updateBook(id, ...) or deleteBook(id) of the remote
\* service, whoever is authenticated and whatever id is given, leaves the
\* rows owned by every other principal in place and unchanged
C19_ForeignRowsUntouched ==
    [][(last' # last /\ last'.op \in {"remoteUpdateBook", "remoteDeleteBook"})
       => \A v \in Principals : v # user => OwnedBy(table', v) = OwnedBy(table, v)]_vars

C19_Witness ==
    /\ last.op = "remoteDeleteBook"
    /\ last.ret = Bool(TRUE)
    /\ user # Null
    /\ \E i \in 1..Len(table) : table[i].id = last.arg /\ table[i].user_id # user

\* the rows tbl had keep their owners in tbl2, and a row tbl2 has beyond
\* them is owned by u
OwnersKept(tbl, tbl2, u) ==
    /\ Len(tbl2) >= Len(tbl)
    /\ \A i \in 1..Len(tbl) : tbl2[i].user_id = tbl[i].user_id
    /\ \A i \in (Len(tbl) + 1)..Len(tbl2) : tbl2[i].user_id = u /\ u \in Principals

\* C20: an add by an authenticated principal of a book whose id is unused
\* creates one row, owned by that principal whatever owner the book object
\* names; an add or update changes the owner of no row, whatever the updates
\* object names; so every row is owned by one principal, the one
\* authenticated when it was added
C20_OwnerFixed ==
    [][(last' # last /\ last'.op \in {"remoteAddBook", "remoteUpdateBook"})
       => /\ OwnersKept(table, table', user)
          /\ \A i \in 1..Len(table') : table'[i].user_id \in Principals
          /\ last'.op = "remoteUpdateBook" => Len(table') = Len(table)
          /\ (/\ last'.op = "remoteAddBook"
              /\ user # Null
              /\ last'.arg.id \notin RowIds(table))
             => Len(table') = Len(table) + 1]_vars

C20_Witness ==
    /\ last.op = "remoteUpdateBook"
    /\ last.wrote
    /\ "user_id" \in DOMAIN last.arg.updates
    /\ \E i \in 1..Len(table) :
          /\ table[i].id = last.arg.id
          /\ table[i].user_id = user
          /\ table[i].user_id # last.arg.updates.user_id
          /\ Get(toSnakeCase(last.arg.updates), "user_id") = Undefined

----------------------------------------------------------------------------
(* Properties of the remote backend: not-found results *)

\* whether the caller owns a row with the id
OwnsRow(tbl, usr, id) == \E i \in 1..Len(tbl) : tbl[i].id = id /\ tbl[i].user_id = usr

\* C21 as stated: when a principal is authenticated and no row has the id
\* or the row belongs to somebody else, the remote deleteBook returns false and the remote updateBook
\* returns to its caller instead of throwing
C21_NotFoundReturned ==
    [][/\ (/\ last' # last
           /\ user # Null
           /\ last'.op = "remoteUpdateBook"
           /\ ~OwnsRow(table, user, last'.arg.id))
          => last'.ret # Undefined
       /\ (/\ last' # last
           /\ user # Null
           /\ last'.op = "remoteDeleteBook"
           /\ ~OwnsRow(table, user, last'.arg))
          => last'.ret = Bool(FALSE)]_vars

----------------------------------------------------------------------------
(* Local backend: every storage function over any imported collection *)

NextFallback ==
    \/ \E t \in ImportTexts, w \in BOOLEAN : ImportBooks(t, w)
    \/ \E d \in AddInputs, f \in Ids, w \in BOOLEAN : AddBook(d, f, w)
    \/ \E id \in Ids, w \in BOOLEAN : UpdateBook(id, [review |-> Str("r")], w)
    \/ \E id \in Ids, w \in BOOLEAN : DeleteBook(id, w)
    \/ \E st \in {WANT_TO_READ, READ} : GetBooksByStatus(st)
    \/ ClearAllBooks
    \/ \E w \in BOOLEAN : ExportImport(w)

SpecFallback == InitLocal /\ [][NextFallback]_vars

\* C22 as stated: no call of a local storage function ends in an exception
C22_NeverThrows == last.ret # TypeError

\* C23 as stated: when the storage refuses the write, addBook, updateBook,
\* deleteBook and importBooks return a failure value (null or false) and
\* the stored collection is what it was
C23_WriteFailureReported ==
    [][(/\ last' # last
        /\ last'.op \in {"addBook", "updateBook", "deleteBook", "importBooks"}
        /\ ~last'.wrote)
       => /\ last'.ret \in {Null, Bool(FALSE)}
          /\ getAllBooks(slot') = stored]_vars

----------------------------------------------------------------------------
(* Remote backend: the change feed *)

ChangeKinds == {"INSERT", "UPDATE", "DELETE"}

\* subscribeToBooks(callback): the channel is created with the handler bound
\* and subscribed
subscribeToBooks(ch) == [ch EXCEPT !.state = "subscribed"]

\* the handler bound to postgres_changes: (payload) => { callback(payload) }
onPayload(calls, payload) == Append(calls, payload)

\* an unsubscribe action that leaves the channel in place
unsubscribe_Noop(ch) == ch

\* the function subscribeToBooks returns: supabase.removeChannel(channel)
unsubscribe(ch) == [ch EXCEPT !.state = "removed"]

SubscribeToBooks ==
    /\ channel.state = "none"
    /\ channel' = subscribeToBooks(channel)
    /\ UNCHANGED <<localVars, remoteVars, now, modelVars, books, addModal,
                   showDeleteConfirm, app, backend>>

\* the backend emits a change event towards the channel; events are numbered
\* in the order of emission
Emit(kind) ==
    /\ channel.state # "none"
    /\ channel.emitted < MaxEvents
    /\ channel' = [channel EXCEPT
                      !.emitted = @ + 1,
                      !.feed = Append(@, [eventType |-> kind, seq |-> channel.emitted + 1])]
    /\ UNCHANGED <<localVars, remoteVars, now, modelVars, books, addModal,
                   showDeleteConfirm, app, backend>>

\* the channel hands the oldest undelivered event to its handler; a removed
\* channel delivers nothing
Deliver ==
    /\ channel.state = "subscribed"
    /\ channel.feed # <<>>
    /\ channel' = [channel EXCEPT
                      !.feed = Tail(@),
                      !.calls = onPayload(@, Head(channel.feed))]
    /\ UNCHANGED <<localVars, remoteVars, now, modelVars, books, addModal,
                   showDeleteConfirm, app, backend>>

Unsubscribe ==
    /\ channel.state = "subscribed"
    /\ ~channel.cancelled
    /\ channel' = [unsubscribe(channel) EXCEPT !.cancelled = TRUE]
    /\ UNCHANGED <<localVars, remoteVars, now, modelVars, books, addModal,
                   showDeleteConfirm, app, backend>>

\* a storage request (getAllBooks, addBook, ...) goes out
StartRequest ==
    /\ channel.pending + channel.completed < 2
    /\ channel' = [channel EXCEPT !.pending = @ + 1]
    /\ UNCHANGED <<localVars, remoteVars, now, modelVars, books, addModal,
                   showDeleteConfirm, app, backend>>

\* a storage request in flight gets its response
CompleteRequest ==
    /\ channel.pending > 0
    /\ channel' = [channel EXCEPT !.pending = @ - 1, !.completed = @ + 1]
    /\ UNCHANGED <<localVars, remoteVars, now, modelVars, books, addModal,
                   showDeleteConfirm, app, backend>>

NextFeed ==
    \/ SubscribeToBooks
    \/ \E k \in ChangeKinds : Emit(k)
    \/ Deliver
    \/ Unsubscribe
    \/ StartRequest
    \/ CompleteRequest

SpecFeed == InitLocal /\ [][NextFeed]_vars

\* C24: the callback's calls are the events of the feed in emission order,
\* each once; once the unsubscribe action has been called the callback is
\* not called again; the unsubscribe action leaves the requests in flight
\* as they are
C24_FeedDelivery ==
    [][/\ \A i \in 1..Len(channel'.calls) : channel'.calls[i].seq = i
       /\ channel.cancelled => channel'.calls = channel.calls
       /\ channel'.cancelled # channel.cancelled =>
              /\ channel'.pending = channel.pending
              /\ channel'.completed = channel.completed]_vars

C24_Witness ==
    /\ channel.cancelled
    /\ Len(channel.calls) = 2
    /\ channel.calls[1].eventType # channel.calls[2].eventType
    /\ channel.feed # <<>>
    /\ channel.completed = 2

----------------------------------------------------------------------------
(* The identifier of a row inserted by the remote service *)

\* C27: the id of the record returned by a successful remote addBook is the
\* one the backend generates, whatever id createBook put into the book
C27_BackendId ==
    [][(last' # last /\ last'.op = "remoteAddBook" /\ last'.wrote) =>
           Get(last'.ret, "id") = Str("g1")]_vars

----------------------------------------------------------------------------
(* The columns a remote update leaves alone *)

\* the fields of an updates object and the columns they are written to
FieldColumns ==
    {<<"title", "title">>, <<"author", "author">>, <<"coverUrl", "cover_url">>,
     <<"status", "status">>, <<"rating", "rating">>, <<"review", "review">>,
     <<"finishedAt", "finished_at">>}

\* C28: a successful remote updateBook(id, updates) leaves every column whose
\* field is absent from updates as it was stored
C28_AbsentFieldsKept ==
    [][(last' # last /\ last'.op = "remoteUpdateBook" /\ last'.wrote) =>
           \A i \in 1..Len(table) :
               (table[i].id = last'.arg.id /\ table'[i].id = last'.arg.id) =>
                   \A fc \in FieldColumns :
                       (fc[1] \notin DOMAIN last'.arg.updates
                        /\ fc[2] \notin DOMAIN last'.arg.updates) =>
                           table'[i][fc[2]] = table[i][fc[2]]]_vars

----------------------------------------------------------------------------
(* The Bookshelf container and its two modals *)

Backends == {"local", "remote"}

\* what an async function returns to a caller that does not await it
Promise == [t |-> "promise"]

\* getAllBooks() as Bookshelf calls it, without await
importedGetAllBooks(be, s) == IF be = "local" THEN Arr(getAllBooks(s)) ELSE Promise

\* the three books.filter(...) of a render; a Promise has no filter method
shelves(bs) ==
    IF ~IsArray(bs) THEN TypeError
    ELSE [s \in Statuses |-> SelectSeq(bs.items, LAMBDA b : Get(b, "status") = s)]

\* the container is on screen: its last render did not throw
Renders == shelves(books) # TypeError

\* handleAddBook(book): addBook(book); setBooks(getAllBooks()). The remote
\* addBook has only been started when setBooks runs
handleAddBook(book, writable) ==
    /\ slot' = IF backend = "local" THEN addBook(slot, book, writable).slot ELSE slot
    /\ books' = importedGetAllBooks(backend, slot')

\* handleUpdateBook(bookId, updates)
handleUpdateBook(bookId, updates, t, writable) ==
    /\ slot' = IF backend = "local" THEN updateBook(slot, bookId, updates, t, writable).slot
               ELSE slot
    /\ books' = importedGetAllBooks(backend, slot')

\* handleDeleteBook(bookId)
handleDeleteBook(bookId, writable) ==
    /\ slot' = IF backend = "local" THEN deleteBook(slot, bookId, writable).slot ELSE slot
    /\ books' = importedGetAllBooks(backend, slot')

\* the effect run once after the first render
LoadBooks ==
    /\ last.op = "none"
    /\ books' = importedGetAllBooks(backend, slot)
    /\ last' = [op |-> "loadBooks", ret |-> Undefined, arg |-> Null, wrote |-> FALSE]
    /\ UNCHANGED <<slot, now, modal, remoteVars, modelVars, addModal, showDeleteConfirm,
                   channel, app, backend>>

HandleAddBook(bookData, fresh, writable) ==
    /\ last.op # "none"
    /\ Renders
    /\ now <= MaxNow
    /\ Len(getAllBooks(slot)) < MaxBooks
    /\ LET book == createBook(bookData, now, fresh)
       IN /\ handleAddBook(book, writable)
          /\ last' = [op |-> "handleAddBook", ret |-> Undefined, arg |-> book,
                      wrote |-> writable]
    /\ now' = now + 1
    /\ UNCHANGED <<modal, remoteVars, modelVars, addModal, showDeleteConfirm, channel, app,
                   backend>>

HandleUpdateBook(bookId, updates, writable) ==
    /\ last.op # "none"
    /\ Renders
    /\ now <= MaxNow
    /\ handleUpdateBook(bookId, updates, now, writable)
    /\ last' = [op |-> "handleUpdateBook", ret |-> Undefined,
                arg |-> [id |-> bookId, updates |-> updates], wrote |-> writable]
    /\ now' = now + 1
    /\ UNCHANGED <<modal, remoteVars, modelVars, addModal, showDeleteConfirm, channel, app,
                   backend>>

HandleDeleteBook(bookId, writable) ==
    /\ last.op # "none"
    /\ Renders
    /\ handleDeleteBook(bookId, writable)
    /\ last' = [op |-> "handleDeleteBook", ret |-> Undefined, arg |-> bookId,
                wrote |-> writable]
    /\ UNCHANGED <<now, modal, remoteVars, modelVars, addModal, showDeleteConfirm, channel,
                   app, backend>>

\* a collection left by an earlier session
ShelfBook == createBook([title |-> Title, author |-> Title, coverUrl |-> Str("u")], 1, Str("b1"))

\* the container mounted over either backend; the remote one has a session
InitShelf ==
    /\ now = 1
    /\ last = NoCall
    /\ modal = ClosedModal
    /\ input = Null
    /\ out = [fn |-> "none", res |-> Null]
    /\ books = Arr(<<>>)
    /\ addModal = [isOpen |-> FALSE, formData |-> EmptyForm, errors |-> <<>>]
    /\ showDeleteConfirm = FALSE
    /\ channel = [state |-> "none", feed |-> <<>>, calls |-> <<>>, emitted |-> 0,
                  cancelled |-> FALSE, pending |-> 0, completed |-> 0]
    /\ app = [session |-> Null, loading |-> TRUE, lookup |-> "idle", read |-> Null,
              auth |-> Null, events |-> <<>>, changes |-> 0]
    /\ backend \in Backends
    /\ IF backend = "local"
       THEN /\ slot \in {NoItem, saveBooks(NoItem, <<ShelfBook>>, TRUE).slot}
            /\ table = <<>>
            /\ user = Null
       ELSE /\ slot = NoItem
            /\ user = Str("u1")
            /\ table \in {<<>>, remoteAddBook(<<>>, Str("u1"), ShelfBook, 1, Str("g1")).table}

NextShelf ==
    \/ LoadBooks
    \/ \E d \in AddInputs, f \in Ids, w \in BOOLEAN : HandleAddBook(d, f, w)
    \/ \E id \in Ids, u \in UpdateInputs, w \in BOOLEAN : HandleUpdateBook(id, u, w)
    \/ \E id \in Ids, w \in BOOLEAN : HandleDeleteBook(id, w)

SpecShelf == InitShelf /\ [][NextShelf]_vars

\* the collection the active backend holds for the caller
held ==
    IF backend = "local" THEN getAllBooks(slot) ELSE remoteGetAllBooks(table, user, TRUE)

ShelfOps == {"loadBooks", "handleAddBook", "handleUpdateBook", "handleDeleteBook"}

\* C26: over either backend, after the load effect and after each handler the
\* books the container displays are the collection the backend holds
C26_DisplayedIsHeld ==
    [][(last' # last /\ last'.op \in ShelfOps) => books' = Arr(held')]_vars

----------------------------------------------------------------------------
(* The add-book form and the delete confirmation, over the local backend *)

\* what the user types or selects in the add-book form
FormEdits ==
    {<<"title", Title>>, <<"title", Text(<<" ">>)>>, <<"author", Title>>}

\* the Add Book button: setIsAddModalOpen(true)
OpenAddModal ==
    /\ ~addModal.isOpen
    /\ addModal' = [addModal EXCEPT !.isOpen = TRUE]
    /\ UNCHANGED <<localVars, now, remoteVars, modelVars, books, showDeleteConfirm, channel,
                   app, backend>>

\* the form's onClose: the component stays mounted and keeps formData, errors
CloseAddModal ==
    /\ addModal.isOpen
    /\ addModal' = [addModal EXCEPT !.isOpen = FALSE]
    /\ UNCHANGED <<localVars, now, remoteVars, modelVars, books, showDeleteConfirm, channel,
                   app, backend>>

\* handleChange(field, value)
HandleChange(field, value) ==
    /\ addModal.isOpen
    /\ addModal' = [addModal EXCEPT !.formData[field] = value, !.errors = <<>>]
    /\ UNCHANGED <<localVars, now, remoteVars, modelVars, books, showDeleteConfirm, channel,
                   app, backend>>

\* handleSubmit: validateBook(formData); on errors show them and return, else
\* createBook, onAdd (handleAddBook), reset the form, onClose
HandleSubmit(fresh, writable) ==
    /\ addModal.isOpen
    /\ LET validation == validateBook(addModal.formData)
           checked    == [formData |-> addModal.formData, validation |-> validation]
       IN IF ~validation.isValid
          THEN /\ addModal' = [addModal EXCEPT !.errors = validation.errors]
               /\ last' = [op |-> "handleSubmit", ret |-> Undefined, arg |-> checked,
                           wrote |-> FALSE]
               /\ UNCHANGED <<slot, books, now>>
          ELSE /\ now <= MaxNow
               /\ Len(getAllBooks(slot)) < MaxBooks
               /\ LET newBook == createBook(addModal.formData, now, fresh)
                  IN /\ handleAddBook(newBook, writable)
                     /\ last' = [op |-> "handleSubmit", ret |-> newBook, arg |-> checked,
                                 wrote |-> writable]
               /\ now' = now + 1
               /\ addModal' = [isOpen |-> FALSE, formData |-> EmptyForm, errors |-> <<>>]
    /\ UNCHANGED <<modal, remoteVars, modelVars, showDeleteConfirm, channel, app, backend>>

\* the Delete button of the details modal: setShowDeleteConfirm(true)
PressDelete ==
    /\ modal.book # Null
    /\ ~showDeleteConfirm
    /\ showDeleteConfirm' = TRUE
    /\ UNCHANGED <<localVars, now, remoteVars, modelVars, books, addModal, channel, app,
                   backend>>

\* Cancel in the confirmation overlay: setShowDeleteConfirm(false)
CancelDelete ==
    /\ modal.book # Null
    /\ showDeleteConfirm
    /\ showDeleteConfirm' = FALSE
    /\ UNCHANGED <<localVars, now, remoteVars, modelVars, books, addModal, channel, app,
                   backend>>

\* Delete in the confirmation overlay: handleDelete runs onDelete(book.id)
\* (handleDeleteBook), then onClose; showDeleteConfirm is not written
HandleDelete(writable) ==
    /\ modal.book # Null
    /\ showDeleteConfirm
    /\ handleDeleteBook(Get(modal.book, "id"), writable)
    /\ last' = [op |-> "handleDelete", ret |-> Undefined, arg |-> modal, wrote |-> writable]
    /\ modal' = ClosedModal
    /\ UNCHANGED <<now, remoteVars, modelVars, addModal, showDeleteConfirm, channel, app,
                   backend>>

\* the two forms through which the user adds and edits a book
NextForms ==
    \/ OpenAddModal
    \/ CloseAddModal
    \/ \E e \in FormEdits : HandleChange(e[1], e[2])
    \/ \E f \in Ids, w \in BOOLEAN : HandleSubmit(f, w)
    \/ \E i \in 1..MaxBooks : HandleBookClick(i)
    \/ \E w \in BOOLEAN : HandleSave(w)
    \/ HandleCloseModal

SpecForms == InitLocal /\ [][NextForms]_vars

\* the details modal with its delete confirmation, on a mounted container
NextConfirm ==
    \/ LoadBooks
    \/ \E f \in Ids : HandleAddBook([title |-> Title, author |-> Title], f, TRUE)
    \/ \E i \in 1..MaxBooks : HandleBookClick(i)
    \/ HandleSave(TRUE)
    \/ HandleCloseModal
    \/ PressDelete
    \/ CancelDelete
    \/ \E w \in BOOLEAN : HandleDelete(w)

SpecConfirm == InitLocal /\ [][NextConfirm]_vars

\* the step is a modal handler that issued a storage add or update
IssuesWrite ==
    \/ last'.op = "handleSave"
    \/ last'.op = "handleSubmit" /\ last'.ret # Undefined

\* C25: a storage add or update issued by a modal follows a validateBook check
\* of the entered values that returned valid; a submit whose validation fails
\* issues nothing, shows the errors and leaves the form open
C25_ValidatedWrites ==
    [][(last' # last /\ last'.op \in {"handleSave", "handleSubmit"}) =>
           /\ IssuesWrite =>
                  /\ "validation" \in DOMAIN last'.arg
                  /\ last'.arg.validation.isValid
           /\ (last'.op = "handleSubmit" /\ ~last'.arg.validation.isValid) =>
                  /\ slot' = slot
                  /\ books' = books
                  /\ addModal'.isOpen
                  /\ addModal'.errors = last'.arg.validation.errors
                  /\ addModal'.errors # <<>>]_vars

\* C29 (second half): whenever the details modal opens for a book, the
\* confirmation overlay is hidden
C29_OverlayHiddenOnOpen ==
    [][(modal.book = Null /\ modal'.book # Null) => ~showDeleteConfirm']_vars

----------------------------------------------------------------------------
(* App: the session state beside the auth provider *)

\* the sessions the auth provider can hold
Sessions == {[user |-> Str("u1")], [user |-> Str("u2")]}

\* what App renders
view(a) ==
    IF a.loading THEN "Loading"
    ELSE IF Truthy(a.session) THEN "Bookshelf" ELSE "Auth"

\* the effect: getSession() is called and the auth-change listener registered
AppMount ==
    /\ app.lookup = "idle"
    /\ app' = [app EXCEPT !.lookup = "called"]
    /\ UNCHANGED <<localVars, now, remoteVars, modelVars, books, addModal, showDeleteConfirm,
                   channel, backend>>

\* the provider reads its current session for the getSession() call
GetSessionRead ==
    /\ app.lookup = "called"
    /\ app' = [app EXCEPT !.lookup = "read", !.read = app.auth]
    /\ UNCHANGED <<localVars, now, remoteVars, modelVars, books, addModal, showDeleteConfirm,
                   channel, backend>>

\* the .then callback: setSession(session); setLoading(false)
GetSessionResolve ==
    /\ app.lookup = "read"
    /\ app' = [app EXCEPT !.lookup = "done", !.session = app.read, !.loading = FALSE]
    /\ UNCHANGED <<localVars, now, remoteVars, modelVars, books, addModal, showDeleteConfirm,
                   channel, backend>>

\* the provider's session changes; a registered listener is owed an event
AuthChange(s) ==
    /\ app.changes < MaxEvents
    /\ s # app.auth
    /\ app' = [app EXCEPT !.auth = s, !.changes = app.changes + 1,
                          !.events = IF app.lookup = "idle" THEN app.events
                                     ELSE Append(app.events, s)]
    /\ UNCHANGED <<localVars, now, remoteVars, modelVars, books, addModal, showDeleteConfirm,
                   channel, backend>>

\* the listener: setSession(session)
OnAuthStateChange ==
    /\ app.events # <<>>
    /\ app' = [app EXCEPT !.session = Head(app.events), !.events = Tail(app.events)]
    /\ UNCHANGED <<localVars, now, remoteVars, modelVars, books, addModal, showDeleteConfirm,
                   channel, backend>>

NextApp ==
    \/ AppMount
    \/ GetSessionRead
    \/ GetSessionResolve
    \/ \E s \in Sessions \cup {Null} : AuthChange(s)
    \/ OnAuthStateChange

SpecApp == InitLocal /\ [][NextApp]_vars

\* C30: the loading view is shown until the initial lookup has resolved; once
\* it has and every auth-change event has been delivered, Bookshelf is shown
\* exactly when the provider's session is non-null, Auth otherwise
C30_ViewFollowsProvider ==
    /\ app.lookup # "done" => view(app) = "Loading"
    /\ (app.lookup = "done" /\ app.events = <<>>) =>
           view(app) = IF app.auth # Null THEN "Bookshelf" ELSE "Auth"

============================================================================
